---------------------------- MODULE Spec2Model ----------------------------
(***************************************************************************)
(* Tenant isolation plugin for a document ORM (lib/mongoose-plugin.ts).    *)
(*                                                                         *)
(* The state is the process-wide exemption set, the schemas the plugin was *)
(* applied to (the tenantId path and the stack of registered hooks), the   *)
(* stored collection, the document instance a caller holds and the query   *)
(* a caller executed last, with its result (cleared by the next operation  *)
(* that is not a read).  The ambient tenant (tenantContext.getStore()) is  *)
(* an input of every operation.                                            *)
(***************************************************************************)
EXTENDS Naturals, Sequences, FiniteSets

VARIABLES exemptModels, tenantIdPath, hooks, db, doc, query, history,
          registered, store, tenants, ret, requests, lastRun

\* the connection's models, the registry, its collection and its last call
registryVars == <<registered, store, tenants, ret>>

\* the requests in flight on the process, each in its own asynchronous
\* context, and the tenant of the latest tenantContext.run
requestVars == <<requests, lastRun>>

vars == <<exemptModels, tenantIdPath, hooks, db, doc, query, history,
          registered, store, tenants, ret, requests, lastRun>>

---------------------------------------------------------------------------
(* Bounds *)

\* documents a collection holds
MaxDocs == 2
\* applications of the plugin to one schema
MaxApply == 1

---------------------------------------------------------------------------
(* Values *)

\* undefined: a field that is not there, no store in the ambient context
Absent == "<undefined>"
\* null, as a caller writes it in a filter ({ tenantId: null })
Null == "<null>"

Tenants == {"tenant1", "tenant2"}

\* tenantContext.getStore(): the tenant the request runs under, or undefined
Ambient == Tenants \cup {Absent}

\* the models that have a schema and a collection
Models == {"Product"}

\* the names a consumer may put into the exemption set
ModelNames == Models

\* no _id in a filter
NoId == 0

\* tenantId as a caller passes it to new Model({...})
DocTenantIds == {Absent, "", "tenant2"}

\* the caller's filter: { }, { tenantId: null }, { tenantId: 'tenant2' } for
\* find and countDocuments, and { _id } for findOne
FilterTenantIds == {Absent, Null, "tenant2"}
Filters == [id : {NoId}, tenantId : FilterTenantIds]
IdFilters == [id : {1}, tenantId : {Absent}]

\* JavaScript truthiness of a string-or-missing value, as `tenantId &&` and
\* `!this.get('tenantId')` evaluate it
Truthy(v) == v \notin {Absent, Null, ""}


---------------------------------------------------------------------------
(* Records *)

\* plugin options that reach the hooks' closures (debug only logs)
Options == [exemptModels : SUBSET ModelNames, hideTenantId : BOOLEAN]

NoDoc ==
  [model |-> Absent, tenantId |-> Absent, id |-> 0,
   op |-> "none", ctx |-> Absent, result |-> "none"]

NoQuery ==
  [op |-> "none", model |-> Absent, ctx |-> Absent,
   filter |-> [id |-> NoId, tenantId |-> Absent],
   executed |-> [id |-> NoId, tenantId |-> Absent],
   hidden |-> FALSE, result |-> <<>>, count |-> 0]

---------------------------------------------------------------------------
(* The ORM's query and document primitives the hooks call *)

\* a where() that replaces the filter instead of merging into it
WhereReplacing(q, t) == [q EXCEPT !.cond = [id |-> NoId, tenantId |-> t]]

\* this.where({ tenantId }): merges the condition into the query's filter
Where(q, t) == [q EXCEPT !.cond.tenantId = t]

\* a select() that toggles the exclusion
SelectToggling(q) == [q EXCEPT !.hidden = ~@]

\* this.select('-tenantId'): excludes the field from the projection
Select(q) == [q EXCEPT !.hidden = TRUE]

\* this.set('tenantId', tenantId)
SetTenantId(d, t) == [d EXCEPT !.tenantId = t]

\* a stored document against the executed filter; { tenantId: null } matches
\* the documents that have no tenantId
MatchTenant(v, c) ==
  CASE c = Absent -> TRUE
    [] c = Null -> v = Absent
    [] OTHER -> v = c

Matches(d, cond) ==
  /\ (cond.id = NoId \/ d.id = cond.id)
  /\ MatchTenant(d.tenantId, cond.tenantId)

\* the projection applied to a returned document
Project(d, hidden) ==
  [id |-> d.id, tenantId |-> IF hidden THEN Absent ELSE d.tenantId]

\* the stored documents the executed filter selects, in natural order
Matching(coll, cond) ==
  LET Sel(d) == Matches(d, cond) IN SelectSeq(coll, Sel)

Projected(ds, hidden) == [i \in 1..Len(ds) |-> Project(ds[i], hidden)]

---------------------------------------------------------------------------
(* Faulty variants of the hooks and of the required function, which the    *)
(* properties below must tell from the ones the plugin registers           *)

\* a read hook that never adds the tenant condition
FindHookUnfiltered(q, opt, m, ctx) ==
  IF m \in exemptModels THEN q
  ELSE IF opt.hideTenantId THEN Select(q) ELSE q

\* a read hook that, with no ambient tenant, restricts the read to the
\* documents without a tenant
FindHookClosed(q, opt, m, ctx) ==
  IF m \in exemptModels THEN q
  ELSE LET q1 == IF ~Truthy(q.cond.tenantId)
                 THEN Where(q, IF Truthy(ctx) THEN ctx ELSE Null) ELSE q
       IN IF opt.hideTenantId THEN Select(q1) ELSE q1

\* a count hook that never adds the tenant condition
CountHookUnfiltered(q, opt, m, ctx) == q

\* a save hook that does not consult the exemption set
SaveHookNoExempt(d, opt, m, ctx) ==
  IF Truthy(ctx) /\ ~Truthy(d.tenantId) THEN SetTenantId(d, ctx) ELSE d

\* a validate hook that leaves the document alone
ValidateHookIdle(d, opt, m, ctx) == d

\* a read hook whose exemption was decided when the plugin was applied
FindHookAtApply(q, opt, m, ctx) ==
  IF history.atApply[m] = "exempt" THEN q
  ELSE LET q1 == IF Truthy(ctx) /\ ~Truthy(q.cond.tenantId)
                 THEN Where(q, ctx) ELSE q
       IN IF opt.hideTenantId THEN Select(q1) ELSE q1

\* a validate hook whose exemption was decided when the plugin was applied
ValidateHookAtApply(d, opt, m, ctx) ==
  IF history.atApply[m] = "exempt" THEN d
  ELSE IF Truthy(ctx) /\ ~Truthy(d.tenantId) THEN SetTenantId(d, ctx) ELSE d

\* a tenantId path that is never required
RequiredNever(m) == FALSE

\* a tenantId path whose required flag is fixed when the plugin is applied
RequiredAtApply(m) == history.atApply[m] # "exempt"

---------------------------------------------------------------------------
(* The hooks of one application of the plugin *)

\* schema.pre(/^find/)
FindHook(q, opt, m, ctx) ==
  IF m \in exemptModels THEN q
  ELSE LET q1 == IF Truthy(ctx) /\ ~Truthy(q.cond.tenantId)
                 THEN Where(q, ctx) ELSE q
       IN IF opt.hideTenantId THEN Select(q1) ELSE q1

\* schema.pre(/^count/)
CountHook(q, opt, m, ctx) ==
  IF m \in exemptModels THEN q
  ELSE IF Truthy(ctx) /\ ~Truthy(q.cond.tenantId) THEN Where(q, ctx) ELSE q

\* schema.pre('save')
SaveHook(d, opt, m, ctx) ==
  IF m \in exemptModels THEN d
  ELSE IF Truthy(ctx) /\ ~Truthy(d.tenantId) THEN SetTenantId(d, ctx) ELSE d

\* schema.pre('validate')
ValidateHook(d, opt, m, ctx) ==
  IF m \in exemptModels THEN d
  ELSE IF Truthy(ctx) /\ ~Truthy(d.tenantId) THEN SetTenantId(d, ctx) ELSE d

\* the required function of the injected tenantId path
Required(m) == IF m \in exemptModels THEN FALSE ELSE TRUE

\* the hooks of every application of the plugin to the schema, in the order
\* they were registered
RECURSIVE RunFindHooks(_, _, _, _)
RunFindHooks(q, hs, m, ctx) ==
  IF hs = <<>> THEN q
  ELSE RunFindHooks(FindHook(q, Head(hs), m, ctx), Tail(hs), m, ctx)

RECURSIVE RunCountHooks(_, _, _, _)
RunCountHooks(q, hs, m, ctx) ==
  IF hs = <<>> THEN q
  ELSE RunCountHooks(CountHook(q, Head(hs), m, ctx), Tail(hs), m, ctx)

RECURSIVE RunSaveHooks(_, _, _, _)
RunSaveHooks(d, hs, m, ctx) ==
  IF hs = <<>> THEN d
  ELSE RunSaveHooks(SaveHook(d, Head(hs), m, ctx), Tail(hs), m, ctx)

RECURSIVE RunValidateHooks(_, _, _, _)
RunValidateHooks(d, hs, m, ctx) ==
  IF hs = <<>> THEN d
  ELSE RunValidateHooks(ValidateHook(d, Head(hs), m, ctx), Tail(hs), m, ctx)

\* a validation that takes the empty string for a value
ValidTenantIdLax(d) ==
  CASE tenantIdPath[d.model] = "injected" ->
         Required(d.model) => d.tenantId \notin {Absent, Null}
    [] OTHER -> TRUE

\* the schema's validation of the tenantId path: a required String fails on
\* a missing value and on the empty string
ValidTenantId(d) ==
  CASE tenantIdPath[d.model] = "injected" ->
         Required(d.model) => d.tenantId \notin {Absent, Null, ""}
    [] OTHER -> TRUE

---------------------------------------------------------------------------
(* State *)

\* two schemas of one application, each with its model
Schemas == {"Product", "Book"}

\* History of the exemption set, kept beside it: for every model name the
\* route by which it was last named ("add": exemptModels.add; "own": the
\* options of its own schema's plugin; "late": the options of another
\* schema's plugin, given when its own schema already had the hooks;
\* "option": the same, given before), and for every schema whether its model
\* was in the set when the plugin was last applied to it
NoHistory ==
  [named |-> [n \in Schemas |-> "none"],
   atApply |-> [s \in Schemas |-> "unapplied"]]

\* the model names a registry resolves to: the default, and the name of a
\* custom or pre-built model
StoreNames == {"Tenant", "Org"}

\* a schema, by the paths it declares besides _id and whether id is unique;
\* NoModel: no schema, no model of that name on the connection
NoModel == [paths |-> {}, unique |-> FALSE]

\* no registry constructed; a registry keeps the options it was given
NoStore ==
  [status |-> "none", model |-> Absent,
   options |-> [connection |-> FALSE, modelName |-> Absent,
                schema |-> NoModel, model |-> Absent]]

\* no tenant given, and the filter of find(): no criterion
NoTenant == [id |-> Absent, name |-> Absent, domain |-> Absent]
NoCond == [key |-> "none", value |-> Absent, tenantId |-> Absent]

NoRet ==
  [op |-> "none", tenant |-> NoTenant, ctx |-> Absent, filter |-> NoCond,
   executed |-> NoCond, value |-> <<>>, error |-> "none"]

\* no connection model, no registry, nothing stored, no call made
NoRegistry ==
  /\ registered = [n \in StoreNames |-> NoModel]
  /\ store = NoStore
  /\ tenants = <<>>
  /\ ret = NoRet

\* two overlapping requests
Requests == {"A", "B"}

\* a request that has not entered a tenant context
NoRequest ==
  [pc |-> "idle", tenant |-> Absent, op |-> "none",
   q |-> [cond |-> [id |-> NoId, tenantId |-> Absent], hidden |-> FALSE],
   doc |-> [model |-> Absent, tenantId |-> Absent],
   result |-> {}, count |-> 0, error |-> "none", calls |-> <<>>]

NoRequests ==
  /\ requests = [r \in Requests |-> NoRequest]
  /\ lastRun = Absent

TypeOK ==
  /\ exemptModels \subseteq ModelNames
  /\ tenantIdPath \in [Models -> {"absent", "declared", "injected"}]
  /\ \A m \in Models : Len(hooks[m]) <= MaxApply
  /\ \A m \in Models : Len(db[m]) <= MaxDocs
  /\ doc.op \in {"none", "new", "validate", "save"}
  /\ query.op \in {"none", "find", "findOne", "countDocuments"}

Init ==
  /\ exemptModels = {}
  /\ tenantIdPath \in [Models -> {"absent", "declared"}]
  /\ hooks = [m \in Models |-> <<>>]
  /\ db = [m \in Models |-> <<>>]
  /\ doc = NoDoc
  /\ query = NoQuery
  /\ history = NoHistory
  /\ NoRegistry
  /\ NoRequests

---------------------------------------------------------------------------
(* Operations *)

\* a plugin that keeps the names of its options to itself
ApplyPluginLocal(m, opt) ==
  /\ Len(hooks[m]) < MaxApply
  /\ tenantIdPath' = [tenantIdPath EXCEPT ![m] =
                        IF @ = "absent" THEN "injected" ELSE @]
  /\ hooks' = [hooks EXCEPT ![m] = Append(@, [hideTenantId |-> opt.hideTenantId])]
  /\ query' = NoQuery
  /\ UNCHANGED <<exemptModels, db, doc>>

\* a plugin that adds its tenantId path over the one the schema declares
ApplyPluginRedeclaring(m, opt) ==
  /\ Len(hooks[m]) < MaxApply
  /\ exemptModels' = exemptModels \cup opt.exemptModels
  /\ tenantIdPath' = [tenantIdPath EXCEPT ![m] = "injected"]
  /\ hooks' = [hooks EXCEPT ![m] = Append(@, [hideTenantId |-> opt.hideTenantId])]
  /\ query' = NoQuery
  /\ UNCHANGED <<db, doc>>

\* multitenancyPlugin(schema, options)
ApplyPlugin(m, opt) ==
  /\ Len(hooks[m]) < MaxApply
  /\ exemptModels' = exemptModels \cup opt.exemptModels
  /\ tenantIdPath' = [tenantIdPath EXCEPT ![m] =
                        IF @ = "absent" THEN "injected" ELSE @]
  /\ hooks' = [hooks EXCEPT ![m] = Append(@, [hideTenantId |-> opt.hideTenantId])]
  /\ query' = NoQuery
  /\ UNCHANGED <<db, doc>>

\* exemptModels.add(name), by a consumer of the exported set
AddExempt(n) ==
  /\ exemptModels' = exemptModels \cup {n}
  /\ query' = NoQuery
  /\ UNCHANGED <<tenantIdPath, hooks, db, doc>>

\* new Model({ tenantId }); strict schemas drop a field they have no path for
NewDoc(m, t) ==
  /\ doc' = [NoDoc EXCEPT !.model = m,
                          !.tenantId = IF tenantIdPath[m] = "absent" THEN Absent ELSE t,
                          !.op = "new"]
  /\ query' = NoQuery
  /\ UNCHANGED <<exemptModels, tenantIdPath, hooks, db>>

\* doc.validate(): the pre('validate') hooks, then the schema's validators
Validate(ctx) ==
  /\ doc.op # "none"
  /\ LET d1 == RunValidateHooks(doc, hooks[doc.model], doc.model, ctx)
     IN doc' = [d1 EXCEPT !.op = "validate", !.ctx = ctx,
                          !.result = IF ValidTenantId(d1) THEN "ok"
                                     ELSE "ValidationError"]
  /\ query' = NoQuery
  /\ UNCHANGED <<exemptModels, tenantIdPath, hooks, db>>

\* History of a stored document: the ambient tenant of the save that
\* persisted it, when its model was not exempt, had the hooks and the
\* document came to that save without a tenantId; kept by later saves
SavedBy(ctx) ==
  IF /\ doc.tenantId = Absent
     /\ doc.model \notin exemptModels
     /\ hooks[doc.model] # <<>>
  THEN ctx
  ELSE IF doc.id = 0 THEN Absent ELSE db[doc.model][doc.id].savedBy

\* doc.save(): validation with its hooks, then the pre('save') hooks, then
\* the insert of a new document or the update of a stored one
Save(ctx) ==
  /\ doc.op # "none"
  /\ doc.id = 0 => Len(db[doc.model]) < MaxDocs
  /\ LET m == doc.model
         d1 == RunValidateHooks(doc, hooks[m], m, ctx)
         d2 == RunSaveHooks(d1, hooks[m], m, ctx)
         id == IF doc.id = 0 THEN Len(db[m]) + 1 ELSE doc.id
         stored == [id |-> id, tenantId |-> d2.tenantId,
                    savedBy |-> SavedBy(ctx)]
     IN IF ~ValidTenantId(d1)
        THEN /\ doc' = [d1 EXCEPT !.op = "save", !.ctx = ctx,
                                          !.result = "ValidationError"]
             /\ db' = db
        ELSE /\ doc' = [d2 EXCEPT !.op = "save", !.ctx = ctx, !.id = id,
                                          !.result = "ok"]
             /\ db' = [db EXCEPT ![m] =
                         IF doc.id = 0 THEN Append(@, stored)
                         ELSE [@ EXCEPT ![id] = stored]]
  /\ query' = NoQuery
  /\ UNCHANGED <<exemptModels, tenantIdPath, hooks>>

\* the execution of Model.find(filter) and Model.findOne(filter), both
\* behind pre(/^find/): the hooks hs of the schema, then the driver's query
ExecFindWith(hs, op, m, ctx, f) ==
  LET q == RunFindHooks([cond |-> f, hidden |-> FALSE], hs, m, ctx)
      all == Projected(Matching(db[m], q.cond), q.hidden)
      res == IF op = "findOne" /\ all # <<>> THEN <<Head(all)>> ELSE all
  IN [op |-> op, model |-> m, ctx |-> ctx, filter |-> f,
      executed |-> q.cond, hidden |-> q.hidden,
      result |-> res, count |-> Len(res)]

ExecFind(op, m, ctx, f) == ExecFindWith(hooks[m], op, m, ctx, f)

\* the execution of Model.countDocuments(filter), behind pre(/^count/)
ExecCount(m, ctx, f) ==
  LET q == RunCountHooks([cond |-> f, hidden |-> FALSE], hooks[m], m, ctx)
  IN [op |-> "countDocuments", model |-> m, ctx |-> ctx,
      filter |-> f, executed |-> q.cond, hidden |-> q.hidden,
      result |-> <<>>, count |-> Len(Matching(db[m], q.cond))]

\* Model.find(filter) and Model.findOne(filter)
Find(op, m, ctx, f) ==
  /\ query' = ExecFind(op, m, ctx, f)
  /\ doc' = NoDoc
  /\ UNCHANGED <<exemptModels, tenantIdPath, hooks, db>>

\* Model.countDocuments(filter)
Count(m, ctx, f) ==
  /\ query' = ExecCount(m, ctx, f)
  /\ doc' = NoDoc
  /\ UNCHANGED <<exemptModels, tenantIdPath, hooks, db>>

Next ==
  /\ \/ \E m \in Models, opt \in Options : ApplyPlugin(m, opt)
     \/ \E n \in ModelNames : AddExempt(n)
     \/ \E m \in Models, t \in DocTenantIds : NewDoc(m, t)
     \/ \E ctx \in Ambient : Validate(ctx)
     \/ \E ctx \in Ambient : Save(ctx)
     \/ \E m \in Models, ctx \in Ambient, f \in Filters : Find("find", m, ctx, f)
     \/ \E m \in Models, ctx \in Ambient, f \in IdFilters : Find("findOne", m, ctx, f)
     \/ \E m \in Models, ctx \in Ambient, f \in Filters : Count(m, ctx, f)
  /\ UNCHANGED history
  /\ UNCHANGED registryVars
  /\ UNCHANGED requestVars

Spec == Init /\ [][Next]_vars

---------------------------------------------------------------------------
(* Vocabulary of the properties *)

\* the plugin has been applied to the model's schema
Hooked(m) == hooks[m] # <<>>

FindOps == {"find", "findOne"}

\* the _ids of the documents the last query returned
ReturnedIds == {query.result[i].id : i \in DOMAIN query.result}

\* the _ids of the stored documents a filter describes, read off the
\* collection
SelectedIds(m, f) ==
  {i \in DOMAIN db[m] :
     /\ f.id = NoId \/ f.id = i
     /\ \/ f.tenantId = Absent
        \/ f.tenantId = Null /\ db[m][i].tenantId = Absent
        \/ f.tenantId = db[m][i].tenantId}

\* the last query returned exactly the documents `ids`: all of them for
\* find, the first of them (or nothing) for findOne
Returned(ids) ==
  IF query.op = "findOne"
  THEN IF ids = {} THEN query.result = <<>>
       ELSE /\ Len(query.result) = 1
            /\ query.result[1].id \in ids
            /\ \A i \in ids : query.result[1].id <= i
  ELSE /\ ReturnedIds = ids
       /\ Len(query.result) = Cardinality(ids)

\* the hooks of a schema, had every application left hideTenantId off
Shown(hs) == [i \in DOMAIN hs |-> [hs[i] EXCEPT !.hideTenantId = FALSE]]

\* a step of doc.validate() or doc.save() under the ambient tenant ctx
WriteStep(ctx) == Validate(ctx) \/ Save(ctx)

---------------------------------------------------------------------------
(* C1..C10: read and write interception *)

\* C1: tenant isolation across write and read.  A document of a non-exempt
\* model that was saved while tenant t was ambient, without a tenantId of
\* its own, is returned by a find/findOne whose filter selects it and is
\* executed while t is ambient, and by none executed while the other tenant
\* is ambient, whatever else has been saved since.
C1_TenantIsolation ==
  ( /\ query.op \in FindOps
    /\ query.model \notin exemptModels
    /\ Hooked(query.model)
    /\ query.ctx \in Tenants
    /\ query.filter.tenantId = Absent )
  => \A i \in DOMAIN db[query.model] :
       LET d == db[query.model][i]
       IN (d.savedBy \in Tenants /\ query.filter.id \in {NoId, i})
          => (i \in ReturnedIds <=> d.savedBy = query.ctx)

C1_Witness ==
  /\ query.op = "find" /\ query.ctx = "tenant1"
  /\ query.model \notin exemptModels
  /\ Len(db[query.model]) = 2
  /\ db[query.model][1].savedBy = "tenant2"
  /\ db[query.model][2].savedBy = "tenant1"
  /\ ReturnedIds = {2}

\* C2: read interception rewrite.  On a non-exempt model, with tenant t
\* ambient and a caller's filter that does not constrain tenantId, the
\* executed filter is the caller's filter plus tenantId = t, and the result
\* is exactly the stored documents that match the caller's filter and have
\* tenantId = t.
C2_ReadRewrite ==
  ( /\ query.op \in FindOps
    /\ query.model \notin exemptModels
    /\ Hooked(query.model)
    /\ query.ctx \in Tenants
    /\ query.filter.tenantId = Absent )
  => /\ query.executed = [query.filter EXCEPT !.tenantId = query.ctx]
     /\ Returned({i \in SelectedIds(query.model, query.filter) :
                    db[query.model][i].tenantId = query.ctx})

C2_Witness ==
  /\ query.op = "findOne" /\ query.ctx = "tenant2"
  /\ query.model \notin exemptModels /\ Hooked(query.model)
  /\ query.filter = [id |-> 1, tenantId |-> Absent]
  /\ query.executed = [id |-> 1, tenantId |-> "tenant2"]
  /\ Len(db[query.model]) = 2
  /\ db[query.model][1].tenantId = "tenant2"
  /\ db[query.model][2].tenantId = "tenant2"
  /\ ReturnedIds = {1}

\* C3: the read and count hooks leave a tenantId constraint the caller
\* wrote in the filter exactly as written, for every ambient tenant.
C3_ExplicitConstraintKept ==
  (query.op # "none" /\ query.filter.tenantId # Absent)
  => query.executed.tenantId = query.filter.tenantId

\* C4: default-open reads.  With no ambient tenant, a find-type or count
\* operation on a non-exempt model executes the caller's filter unchanged
\* and covers the documents of all tenants; with the empty filter it yields
\* every stored document under no ambient tenant and exactly the documents
\* of tenant t under ambient t.
C4_DefaultOpen ==
  ( /\ query.op # "none"
    /\ query.model \notin exemptModels
    /\ Hooked(query.model) )
  => /\ query.ctx = Absent
        => /\ query.executed = query.filter
           /\ query.count = IF query.op = "findOne" /\ SelectedIds(query.model, query.filter) # {}
                            THEN 1
                            ELSE Cardinality(SelectedIds(query.model, query.filter))
           /\ query.op \in FindOps => Returned(SelectedIds(query.model, query.filter))
     /\ query.filter = [id |-> NoId, tenantId |-> Absent]
        => query.count =
             Cardinality({i \in DOMAIN db[query.model] :
                            query.ctx = Absent \/ db[query.model][i].tenantId = query.ctx})

C4_Witness ==
  /\ query.op = "find" /\ query.ctx = Absent
  /\ query.model \notin exemptModels /\ Hooked(query.model)
  /\ query.filter = [id |-> NoId, tenantId |-> Absent]
  /\ Len(db[query.model]) = 2
  /\ db[query.model][1].tenantId = "tenant1"
  /\ db[query.model][2].tenantId = "tenant2"
  /\ ReturnedIds = {1, 2}

\* C5: exempt models are independent of the ambient tenant.  On a model
\* whose name is in the exemption set, a read or count gives the executed
\* filter, projection and result it gives under every other ambient tenant,
\* and a validate or save leaves the document's tenantId as it was, passes
\* validation and stores what it would store under every other ambient
\* tenant (the two-run statement, by induction over the steps of the run).
C5_ExemptReads ==
  (query.op # "none" /\ query.model \in exemptModels)
  => \A c \in Ambient :
       LET other == IF query.op = "countDocuments"
                    THEN ExecCount(query.model, c, query.filter)
                    ELSE ExecFind(query.op, query.model, c, query.filter)
       IN /\ query.executed = query.filter
          /\ other.executed = query.executed
          /\ other.hidden = query.hidden
          /\ other.result = query.result
          /\ other.count = query.count

C5_ExemptWrites ==
  \A c \in Ambient :
    (doc.model \in exemptModels /\ WriteStep(c))
    => /\ doc'.tenantId = doc.tenantId
       /\ doc'.result = "ok"
       /\ doc'.op = "validate" => db' = db
       /\ doc'.op = "save"
          => /\ db'[doc.model][doc'.id].tenantId = doc.tenantId
             /\ db'[doc.model][doc'.id].savedBy =
                  (IF doc.id = 0 THEN Absent ELSE db[doc.model][doc.id].savedBy)
             /\ Len(db'[doc.model]) = Len(db[doc.model]) + (IF doc.id = 0 THEN 1 ELSE 0)

C5_ExemptIndependent == []C5_ExemptReads /\ [][C5_ExemptWrites]_vars

C5_Witness ==
  /\ doc.op = "save" /\ doc.ctx = "tenant1" /\ doc.result = "ok"
  /\ doc.model \in exemptModels /\ Hooked(doc.model)
  /\ doc.tenantId = Absent
  /\ db[doc.model][doc.id].tenantId = Absent
  /\ Len(db[doc.model]) = 2
  /\ db[doc.model][1].tenantId = "tenant2"

\* C6: write stamping.  When a document of a non-exempt model is validated
\* or saved while tenant t is ambient and its tenantId is not set, the hook
\* sets tenantId to t: the in-memory document carries tenantId = t and, for
\* a save, so does the persisted one.
C6_Stamp ==
  \A t \in Tenants :
    ( /\ doc.op # "none"
      /\ doc.model \notin exemptModels
      /\ Hooked(doc.model)
      /\ doc.tenantId = Absent
      /\ WriteStep(t) )
    => /\ doc'.tenantId = t
       /\ doc'.result = "ok"
       /\ doc'.op = "save" => db'[doc.model][doc'.id].tenantId = t

C6_WriteStamping == [][C6_Stamp]_vars

C6_Witness ==
  /\ doc.op = "save" /\ doc.ctx = "tenant1" /\ doc.result = "ok"
  /\ doc.model \notin exemptModels /\ Hooked(doc.model)
  /\ doc.tenantId = "tenant1"
  /\ db[doc.model][doc.id].tenantId = "tenant1"
  /\ db[doc.model][doc.id].savedBy = "tenant1"

\* C7: the write hooks never overwrite a tenantId that is set.  A document
\* whose tenantId has a value before a validate or save has the same value
\* after it, under every ambient tenant.
C7_Kept ==
  \A c \in Ambient :
    (doc.tenantId # Absent /\ WriteStep(c)) => doc'.tenantId = doc.tenantId

C7_NeverOverwritten == [][C7_Kept]_vars

\* C8: saving a document of a non-exempt model with no ambient tenant and
\* no tenantId fails required-field validation: the save ends in a
\* validation error, the document still has no tenantId and nothing is
\* persisted.
C8_Rejected ==
  /\ doc'.result = "ValidationError"
  /\ doc'.tenantId = Absent
  /\ db' = db

C8_Fails ==
  ( /\ doc.op # "none"
    /\ doc.model \notin exemptModels
    /\ Hooked(doc.model)
    /\ doc.tenantId = Absent
    /\ Save(Absent) )
  => C8_Rejected

C8_SaveWithoutTenantFails == [][C8_Fails]_vars

\* C8, amended: the same, for a model whose tenantId path was added by the
\* plugin (a schema that declares tenantId itself keeps its own rule).
C8_FailsInjected ==
  ( /\ doc.op # "none"
    /\ doc.model \notin exemptModels
    /\ Hooked(doc.model)
    /\ tenantIdPath[doc.model] = "injected"
    /\ doc.tenantId = Absent
    /\ Save(Absent) )
  => C8_Rejected

C8_SaveWithoutTenantFailsInjected == [][C8_FailsInjected]_vars

C8_Witness ==
  /\ doc.op = "save" /\ doc.ctx = Absent
  /\ doc.result = "ValidationError"
  /\ doc.tenantId = Absent /\ doc.id = 0
  /\ doc.model \notin exemptModels /\ Hooked(doc.model)
  /\ tenantIdPath[doc.model] = "injected"
  /\ db[doc.model] = <<>>

\* C9: count agrees with find.  A count returns the number of documents a
\* find with the same filter returns under the same ambient tenant; the
\* count hook rewrites the filter as the read hook does and leaves the
\* projection alone.
C9_CountAgreesWithFind ==
  (query.op = "countDocuments")
  => LET found == ExecFind("find", query.model, query.ctx, query.filter)
     IN /\ query.count = Len(found.result)
        /\ query.executed = found.executed
        /\ query.hidden = FALSE

C9_Witness ==
  /\ query.op = "countDocuments" /\ query.ctx = "tenant1"
  /\ query.model \notin exemptModels /\ Hooked(query.model)
  /\ query.filter = [id |-> NoId, tenantId |-> Absent]
  /\ Len(db[query.model]) = 2
  /\ query.count = 1

\* C10: with hideTenantId enabled on a schema, every find-type read on a
\* model of that schema returns its documents without tenantId, with or
\* without an ambient tenant, and returns the documents it returns with the
\* option disabled.
C10_HiddenInEveryRead ==
  ( /\ query.op \in FindOps
    /\ \E i \in DOMAIN hooks[query.model] : hooks[query.model][i].hideTenantId )
  => LET shown == ExecFindWith(Shown(hooks[query.model]), query.op,
                               query.model, query.ctx, query.filter)
     IN /\ \A i \in DOMAIN query.result : query.result[i].tenantId = Absent
        /\ ReturnedIds = {shown.result[i].id : i \in DOMAIN shown.result}

---------------------------------------------------------------------------
(* The exemption set over two schemas: names are added by either route and *)
(* the set is cleared while the hooks stay registered                      *)

\* exemptModels.clear(), by a consumer of the exported set
ClearExempt ==
  /\ exemptModels' = {}
  /\ query' = NoQuery
  /\ UNCHANGED <<tenantIdPath, hooks, db, doc>>

\* the options a schema's plugin is given
SchemaOptions == [exemptModels : SUBSET Schemas, hideTenantId : BOOLEAN]

\* the route by which the options of schema s's plugin name n
OptionRoute(s, n) ==
  IF n = s THEN "own" ELSE IF hooks[n] # <<>> THEN "late" ELSE "option"

\* the history after multitenancyPlugin(s, opt)
NamedByOptions(s, opt) ==
  [named |-> [n \in Schemas |->
                IF n \in opt.exemptModels THEN OptionRoute(s, n)
                ELSE history.named[n]],
   atApply |-> [history.atApply EXCEPT ![s] =
                  IF s \in exemptModels \cup opt.exemptModels
                  THEN "exempt" ELSE "required"]]

EmptyFilter == [id |-> NoId, tenantId |-> Absent]

ExemptInit ==
  /\ exemptModels = {}
  /\ tenantIdPath \in [Schemas -> {"absent", "declared"}]
  /\ hooks = [s \in Schemas |-> <<>>]
  /\ db = [s \in Schemas |-> <<>>]
  /\ doc = NoDoc
  /\ query = NoQuery
  /\ history = NoHistory
  /\ NoRegistry
  /\ NoRequests

ExemptNext ==
  /\ \/ \E s \in Schemas, opt \in SchemaOptions :
          ApplyPlugin(s, opt) /\ history' = NamedByOptions(s, opt)
     \/ \E n \in Schemas :
          AddExempt(n) /\ history' = [history EXCEPT !.named[n] = "add"]
     \/ ClearExempt /\ history' = [history EXCEPT !.named = NoHistory.named]
     \/ \E s \in Schemas : NewDoc(s, Absent) /\ UNCHANGED history
     \/ \E ctx \in Ambient : Validate(ctx) /\ UNCHANGED history
     \/ \E s \in Schemas, ctx \in Ambient :
          Find("find", s, ctx, EmptyFilter) /\ UNCHANGED history
     \/ \E s \in Schemas, ctx \in Ambient :
          Count(s, ctx, EmptyFilter) /\ UNCHANGED history
  /\ UNCHANGED registryVars
  /\ UNCHANGED requestVars

ExemptSpec == ExemptInit /\ [][ExemptNext]_vars

\* C11: one shared exemption set.  A model name is in the set exactly when
\* it was named, by the options of any schema's plugin or by a direct add,
\* since the set was last cleared; and a named model is exempt in the read,
\* count and validate hooks of its schema, whichever route named it and
\* whether the hooks were registered before or after, while a model that
\* was not named is filtered under an ambient tenant.
C11_SameSet ==
  /\ \A n \in Schemas : n \in exemptModels <=> history.named[n] # "none"
  /\ (query.op # "none" /\ hooks[query.model] # <<>>)
     => IF history.named[query.model] # "none"
        THEN query.executed = query.filter /\ ~query.hidden
        ELSE query.ctx \in Tenants => query.executed.tenantId = query.ctx

C11_Writes ==
  \A c \in Ambient :
    (doc.op # "none" /\ history.named[doc.model] # "none" /\ Validate(c))
    => doc'.tenantId = doc.tenantId /\ doc'.result = "ok"

C11_OneSharedSet == []C11_SameSet /\ [][C11_Writes]_vars

C11_Witness ==
  /\ query.op = "find" /\ query.model = "Product" /\ query.ctx = "tenant1"
  /\ hooks["Product"] # <<>>
  /\ history.named["Product"] = "late"
  /\ history.named["Book"] = "add"
  /\ query.executed = query.filter

\* C18: whether tenantId is required is decided when the document is
\* validated.  A validation that leaves a document of a schema with the
\* hooks without tenantId fails if and only if the document's model name is
\* not in the exemption set at that moment, whatever the set held when the
\* plugin was applied.
C18_Decided ==
  /\ doc.op # "none"
  /\ hooks[doc.model] # <<>>
  /\ doc.tenantId = Absent
  /\ \E c \in Ambient : Validate(c)
  /\ doc'.tenantId = Absent

C18_Now == doc'.result = "ValidationError" <=> doc.model \notin exemptModels

C18_RequiredAtValidation == [][C18_Decided => C18_Now]_vars

\* C18, amended: the same, for a schema whose tenantId path was added by the
\* plugin.
C18_RequiredAtValidationInjected ==
  [][(C18_Decided /\ tenantIdPath[doc.model] = "injected") => C18_Now]_vars

C18_Witness ==
  /\ doc.op = "validate" /\ doc.result = "ValidationError"
  /\ doc.tenantId = Absent
  /\ tenantIdPath[doc.model] = "injected"
  /\ history.atApply[doc.model] = "exempt"
  /\ doc.model \notin exemptModels

---------------------------------------------------------------------------
(* The tenant registry (MongooseStore) on a connection                     *)

\* tenant records a registry holds
MaxTenants == 2

defaultTenantSchema == [paths |-> {"id", "name"}, unique |-> TRUE]

\* new Schema({ id, name, domain }): no unique index
customSchema == [paths |-> {"id", "name", "domain"}, unique |-> FALSE]

\* new Schema({ name }), and a schema with id alone
invalidSchema == [paths |-> {"name"}, unique |-> FALSE]
idOnlySchema == [paths |-> {"id"}, unique |-> FALSE]

ConnectionRequired == "MongoDB connection is required for MongooseStore"
FieldsRequired == "Custom tenant model must include \"id\" and \"name\" fields"

\* MongooseStoreOptions: connection given or not, modelName, schema, and
\* model (the pre-built model of that name on the connection)
StoreOptions ==
  [connection : BOOLEAN, modelName : {Absent, "Org"},
   schema : {NoModel, customSchema}, model : {Absent, "Org"}]

\* connection.model(name, schema): compiles the model, returns the one of
\* that name compiled from the same schema, and throws when the name is
\* taken by a model of another schema
ConnectionModel(name, sch) ==
  IF registered[name] # NoModel /\ registered[name] # sch
  THEN [error |-> "OverwriteModelError", models |-> registered]
  ELSE [error |-> "none", models |-> [registered EXCEPT ![name] = sch]]

\* a constructor that looks at the model before it looks at the connection
ConstructModelFirst(o) ==
  IF o.model # Absent /\ ~({"id", "name"} \subseteq registered[o.model].paths)
  THEN [status |-> FieldsRequired, model |-> Absent, models |-> registered]
  ELSE IF ~o.connection
  THEN [status |-> ConnectionRequired, model |-> Absent, models |-> registered]
  ELSE IF o.model # Absent
  THEN [status |-> "ok", model |-> o.model, models |-> registered]
  ELSE LET name == IF o.modelName = Absent THEN "Tenant" ELSE o.modelName
           sch == IF o.schema = NoModel THEN defaultTenantSchema ELSE o.schema
           r == ConnectionModel(name, sch)
       IN IF r.error # "none"
          THEN [status |-> r.error, model |-> Absent, models |-> registered]
          ELSE [status |-> "ok", model |-> name, models |-> r.models]

\* a constructor that compiles the model of its name before any check
ConstructRegisterFirst(o) ==
  LET name == IF o.modelName = Absent THEN "Tenant" ELSE o.modelName
      sch == IF o.schema = NoModel THEN defaultTenantSchema ELSE o.schema
      r == ConnectionModel(name, sch)
  IN IF ~o.connection
     THEN [status |-> ConnectionRequired, model |-> Absent, models |-> r.models]
     ELSE IF o.model # Absent
     THEN IF {"id", "name"} \subseteq registered[o.model].paths
          THEN [status |-> "ok", model |-> o.model, models |-> r.models]
          ELSE [status |-> FieldsRequired, model |-> Absent, models |-> r.models]
     ELSE IF r.error # "none"
     THEN [status |-> r.error, model |-> Absent, models |-> registered]
     ELSE [status |-> "ok", model |-> name, models |-> r.models]

\* the body of the constructor up to the model it resolves, or the error
\* it throws
Construct(o) ==
  IF ~o.connection
  THEN [status |-> ConnectionRequired, model |-> Absent, models |-> registered]
  ELSE IF o.model # Absent
  THEN IF {"id", "name"} \subseteq registered[o.model].paths
       THEN [status |-> "ok", model |-> o.model, models |-> registered]
       ELSE [status |-> FieldsRequired, model |-> Absent, models |-> registered]
  ELSE LET name == IF o.modelName = Absent THEN "Tenant" ELSE o.modelName
           sch == IF o.schema = NoModel THEN defaultTenantSchema ELSE o.schema
           r == ConnectionModel(name, sch)
       IN IF r.error # "none"
          THEN [status |-> r.error, model |-> Absent, models |-> registered]
          ELSE [status |-> "ok", model |-> name, models |-> r.models]

\* a registry that exempts the default model name whatever it resolved
ExemptRegistryDefault(name) == exemptModels \cup {"Tenant"}

\* exemptModels.add(this.TenantModel.modelName)
ExemptRegistry(name) == exemptModels \cup {name}

\* new MongooseStore(options)
NewStore(o) ==
  /\ store.status # "ok"
  /\ o.model # Absent => registered[o.model] # NoModel
  /\ LET c == Construct(o)
     IN /\ store' = [status |-> c.status, model |-> c.model, options |-> o]
        /\ registered' = c.models
        /\ exemptModels' = IF c.status = "ok" THEN ExemptRegistry(c.model)
                           ELSE exemptModels
  /\ ret' = NoRet
  /\ UNCHANGED <<tenantIdPath, hooks, db, doc, query, history, tenants>>

\* connection.model('Org', schema), by the consumer who builds the model
DefineModel(sch) ==
  /\ registered["Org"] = NoModel
  /\ registered' = ConnectionModel("Org", sch).models
  /\ ret' = NoRet
  /\ UNCHANGED <<exemptModels, tenantIdPath, hooks, db, doc, query, history,
                 store, tenants>>

\* the tenants a caller adds: two share an id, two share a name, two carry
\* a custom field
TenantInputs ==
  {[id |-> "t1", name |-> "Acme", domain |-> Absent],
   [id |-> "t2", name |-> "Acme", domain |-> "acme.example"],
   [id |-> "t1", name |-> "Bolt", domain |-> "bolt.example"]}

LookupIds == {"t1", "t2", "missing"}
LookupNames == {"Acme", "Bolt", "missing"}

\* a filter that looks the name up in the id field
NameFilterAsId(name) == [key |-> "id", value |-> name, tenantId |-> Absent]

\* { id } and { name }, the filters of getById and getByName
IdFilter(id) == [key |-> "id", value |-> id, tenantId |-> Absent]
NameFilter(name) == [key |-> "name", value |-> name, tenantId |-> Absent]

\* a stored tenant record against the executed filter
MatchesTenant(x, cond) ==
  /\ \/ cond.key = "none"
     \/ cond.key = "id" /\ x.id = cond.value
     \/ cond.key = "name" /\ x.name = cond.value
  /\ MatchTenant(x.tenantId, cond.tenantId)

\* .lean(): the plain record, under the query's projection
Lean(x, hidden) == [x EXCEPT !.tenantId = IF hidden THEN Absent ELSE @]

\* TenantModel.find(filter) and TenantModel.findOne(filter), behind the
\* pre(/^find/) hooks of the model's schema
TenantQuery(op, ctx, f) ==
  LET m == store.model
      q == RunFindHooks([cond |-> f, hidden |-> FALSE], hooks[m], m, ctx)
      Sel(x) == MatchesTenant(x, q.cond)
      found == SelectSeq(tenants, Sel)
      all == [i \in 1..Len(found) |-> Lean(found[i], q.hidden)]
  IN [op |-> op, tenant |-> NoTenant, ctx |-> ctx, filter |-> f,
      executed |-> q.cond,
      value |-> IF f.key # "none" /\ all # <<>> THEN <<Head(all)>> ELSE all,
      error |-> "none"]

\* the document TenantModel.create(tenant) builds: the fields the schema has
\* a path for, and the _id the driver generates
Created(t, sch, tenantId) ==
  [_id |-> Len(tenants) + 1, id |-> t.id, name |-> t.name,
   domain |-> IF "domain" \in sch.paths THEN t.domain ELSE Absent,
   tenantId |-> tenantId]

\* an add that hands back the document it created
AddResultCreated(t, created) == created

\* return tenant
AddResult(t, created) == t

\* an add that wraps the driver's error
PropagateWrapped(err) == "StoreError"

\* await TenantModel.create(tenant), with nothing around it to catch
Propagate(err) == err

\* the driver's answer to TenantModel.create: the validation of the
\* document with its hooks, the pre('save') hooks, the unique index
CreateError(t, ctx) ==
  LET m == store.model
      d0 == [model |-> m, tenantId |-> Absent]
      d1 == RunValidateHooks(d0, hooks[m], m, ctx)
  IN IF ~ValidTenantId(d1) THEN "ValidationError"
     ELSE IF /\ registered[m].unique
             /\ \E i \in DOMAIN tenants : tenants[i].id = t.id
     THEN "E11000 duplicate key"
     ELSE "none"

CreatedBy(t, ctx) ==
  LET m == store.model
      d0 == [model |-> m, tenantId |-> Absent]
      d1 == RunValidateHooks(d0, hooks[m], m, ctx)
      d2 == RunSaveHooks(d1, hooks[m], m, ctx)
  IN Created(t, registered[m], d2.tenantId)

\* store.add(tenant)
Add(t, ctx) ==
  /\ store.status = "ok"
  /\ Len(tenants) < MaxTenants
  /\ LET err == CreateError(t, ctx)
         created == CreatedBy(t, ctx)
     IN /\ tenants' = IF err = "none" THEN Append(tenants, created) ELSE tenants
        /\ ret' = [NoRet EXCEPT !.op = "add", !.tenant = t, !.ctx = ctx,
                                !.value = IF err = "none"
                                          THEN <<AddResult(t, created)>>
                                          ELSE <<>>,
                                !.error = IF err = "none" THEN "none"
                                          ELSE Propagate(err)]
  /\ UNCHANGED <<exemptModels, tenantIdPath, hooks, db, doc, query, history,
                 registered, store>>

\* store.getAll()
GetAll(ctx) ==
  /\ store.status = "ok"
  /\ ret' = TenantQuery("getAll", ctx, NoCond)
  /\ UNCHANGED <<exemptModels, tenantIdPath, hooks, db, doc, query, history,
                 registered, store, tenants>>

\* store.getById(id)
GetById(id, ctx) ==
  /\ store.status = "ok"
  /\ ret' = TenantQuery("getById", ctx, IdFilter(id))
  /\ UNCHANGED <<exemptModels, tenantIdPath, hooks, db, doc, query, history,
                 registered, store, tenants>>

\* store.getByName(name)
GetByName(name, ctx) ==
  /\ store.status = "ok"
  /\ ret' = TenantQuery("getByName", ctx, NameFilter(name))
  /\ UNCHANGED <<exemptModels, tenantIdPath, hooks, db, doc, query, history,
                 registered, store, tenants>>

\* the plugin's options on a registry's schema
RegistryOptions == [exemptModels : {{}}, hideTenantId : {FALSE}]

\* the ambient tenant of a request that calls the registry
Callers == {Absent, "tenant1"}

RegistryInit ==
  /\ exemptModels = {}
  /\ tenantIdPath = [n \in StoreNames |-> "absent"]
  /\ hooks = [n \in StoreNames |-> <<>>]
  /\ db = [n \in StoreNames |-> <<>>]
  /\ doc = NoDoc
  /\ query = NoQuery
  /\ history = NoHistory
  /\ NoRegistry
  /\ NoRequests

RegistryNext ==
  /\ \/ \E sch \in {customSchema, invalidSchema, idOnlySchema} : DefineModel(sch)
     \/ \E o \in StoreOptions : NewStore(o)
     \/ \E n \in StoreNames, opt \in RegistryOptions :
          /\ ApplyPlugin(n, opt)
          /\ ret' = NoRet
          /\ UNCHANGED <<history, registered, store, tenants>>
     \/ /\ ClearExempt
        /\ ret' = NoRet
        /\ UNCHANGED <<history, registered, store, tenants>>
     \/ \E t \in TenantInputs, ctx \in Callers : Add(t, ctx)
     \/ \E ctx \in Callers : GetAll(ctx)
     \/ \E id \in LookupIds, ctx \in Callers : GetById(id, ctx)
     \/ \E name \in LookupNames, ctx \in Callers : GetByName(name, ctx)
  /\ UNCHANGED requestVars

RegistrySpec == RegistryInit /\ [][RegistryNext]_vars

---------------------------------------------------------------------------
(* C12..C17: the registry *)

RegistryReads == {"getAll", "getById", "getByName"}

\* the model name the options resolve to
ResolvedName(o) ==
  IF o.model # Absent THEN o.model
  ELSE IF o.modelName = Absent THEN "Tenant" ELSE o.modelName

\* the pre-built model of the options lacks the id path or the name path
LacksFields(o) ==
  o.model # Absent /\ ~({"id", "name"} \subseteq registered[o.model].paths)

\* the name of the options is taken on the connection by a model compiled
\* from another schema
NameTaken(o) ==
  /\ o.model = Absent
  /\ registered[ResolvedName(o)] # NoModel
  /\ registered[ResolvedName(o)] #
       (IF o.schema = NoModel THEN defaultTenantSchema ELSE o.schema)

\* C12: construction fails exactly when the connection is absent (checked
\* first, also with a pre-built model) or the pre-built model lacks the id
\* path or the name path; in every other case it succeeds.
C12_Outcome ==
  \A o \in StoreOptions :
    NewStore(o)
    => store'.status =
         (IF ~o.connection THEN ConnectionRequired
          ELSE IF LacksFields(o) THEN FieldsRequired
          ELSE "ok")

C12_FailsExactly == [][C12_Outcome]_vars

\* C12, amended: besides, construction fails with the connection's error
\* when no model is supplied and the model name is taken on the connection
\* by a model of another schema.
C12_OutcomeOrTaken ==
  \A o \in StoreOptions :
    NewStore(o)
    => /\ store'.status =
            (IF ~o.connection THEN ConnectionRequired
             ELSE IF LacksFields(o) THEN FieldsRequired
             ELSE IF NameTaken(o) THEN "OverwriteModelError"
             ELSE "ok")
       /\ store'.status # "ok" => exemptModels' = exemptModels

C12_FailsExactlyOrTaken == [][C12_OutcomeOrTaken]_vars

C12_Witness ==
  /\ store.status = ConnectionRequired
  /\ store.options.model = "Org"
  /\ registered["Org"] = invalidSchema

\* C13: once a registry is constructed, the name of its resolved model is
\* in the exemption set and, in every later state, getAll, getById and
\* getByName read without a tenant filter under any ambient tenant, getAll
\* returning every stored record.
C13_Unfiltered ==
  ret.op \in RegistryReads
  => /\ ret.executed = ret.filter
     /\ ret.op = "getAll" => ret.value = tenants

C13_Always == store.status = "ok" => (store.model \in exemptModels /\ C13_Unfiltered)

C13_RegistryExempt == []C13_Always

\* C13, amended: the name is in the set when construction returns, and the
\* reads are unfiltered in every later state in which the name is still in
\* the set.
C13_Constructed ==
  \A o \in StoreOptions :
    (NewStore(o) /\ store'.status = "ok")
    => /\ store'.model = ResolvedName(o)
       /\ store'.model \in exemptModels'

C13_WhileNamed ==
  (store.status = "ok" /\ store.model \in exemptModels) => C13_Unfiltered

C13_RegistryExemptWhileNamed == []C13_WhileNamed /\ [][C13_Constructed]_vars

C13_Witness ==
  /\ store.status = "ok" /\ store.model = "Org"
  /\ store.model \in exemptModels
  /\ hooks["Org"] # <<>>
  /\ ret.op = "getAll" /\ ret.ctx = "tenant1"
  /\ Len(tenants) = 2 /\ ret.value = tenants

\* the field a lookup goes by, and the stored records that have the value
\* the last lookup asked for
Keyed(x) == IF ret.op = "getById" THEN x.id ELSE x.name
Hits == {i \in DOMAIN tenants : Keyed(tenants[i]) = ret.filter.value}
Lookups == {"getById", "getByName"}

\* a step of add(t) that succeeds
Added(t) == \E c \in Callers : Add(t, c) /\ ret'.error = "none"

\* C14: registry round trip.  After add(r) succeeded, getById(r.id) and
\* getByName(r.name) return a record with r's id, name and custom fields;
\* for an id or a name no stored record has they return null, without an
\* error.
C14_Reads ==
  ret.op \in Lookups
  => /\ ret.error = "none"
     /\ Hits = {} => ret.value = <<>>
     /\ \A i \in Hits :
          /\ Len(ret.value) = 1
          /\ ret.value[1].id = tenants[i].id
          /\ ret.value[1].name = tenants[i].name
          /\ ret.value[1].domain = tenants[i].domain

C14_AddKeeps ==
  \A t \in TenantInputs :
    Added(t)
    => LET x == tenants'[Len(tenants')]
       IN x.id = t.id /\ x.name = t.name /\ x.domain = t.domain

C14_RoundTrip == []C14_Reads /\ [][C14_AddKeeps]_vars

\* C14, amended: add(r) stores r's id, name and the custom fields the
\* schema declares; while the registry's model is exempt, getById and
\* getByName return the first stored record that has the id or the name,
\* and null when there is none.
C14_FirstHit ==
  (ret.op \in Lookups /\ store.model \in exemptModels)
  => /\ ret.error = "none"
     /\ IF Hits = {} THEN ret.value = <<>>
        ELSE ret.value =
               <<tenants[CHOOSE i \in Hits : \A j \in Hits : i <= j]>>

C14_AddDeclared ==
  \A t \in TenantInputs :
    Added(t)
    => /\ Len(tenants') = Len(tenants) + 1
       /\ LET x == tenants'[Len(tenants')]
          IN /\ x.id = t.id /\ x.name = t.name
             /\ x.domain = IF "domain" \in registered[store.model].paths
                            THEN t.domain ELSE Absent

C14_RoundTripFirst == []C14_FirstHit /\ [][C14_AddDeclared]_vars

C14_Witness ==
  /\ ret.op = "getByName" /\ ret.filter.value = "Acme"
  /\ store.model \in exemptModels
  /\ Len(tenants) = 2
  /\ tenants[1].name = "Acme" /\ tenants[2].name = "Acme"
  /\ ret.value = <<tenants[1]>>

\* C15: add persists exactly one record and returns the value it was
\* given, unchanged, without the fields the database generated.
C15_Returned ==
  (ret.op = "add" /\ ret.error = "none") => ret.value = <<ret.tenant>>

C15_OneRecord ==
  \A t \in TenantInputs :
    Added(t)
    => /\ Len(tenants') = Len(tenants) + 1
       /\ \A i \in DOMAIN tenants : tenants'[i] = tenants[i]
       /\ ret'.tenant = t

C15_AddReturnsInput == []C15_Returned /\ [][C15_OneRecord]_vars

C15_Witness ==
  /\ ret.op = "add" /\ ret.error = "none"
  /\ ret.tenant.domain = "acme.example"
  /\ registered[store.model] = defaultTenantSchema
  /\ tenants[Len(tenants)].domain = Absent
  /\ ret.value = <<ret.tenant>>

\* C16: no two stored tenant records have the same id, whichever way the
\* registry was constructed.
C16_UniqueIds ==
  \A i, j \in DOMAIN tenants : tenants[i].id = tenants[j].id => i = j

\* C17: when the driver rejects an add, add rejects with the driver's error
\* as it is and the stored records are what they were.
C17_Rejected ==
  \A t \in TenantInputs, c \in Callers :
    (store.status = "ok" /\ Add(t, c) /\ CreateError(t, c) # "none")
    => /\ ret'.error = CreateError(t, c)
       /\ ret'.value = <<>>
       /\ tenants' = tenants

C17_ErrorsPropagate == [][C17_Rejected]_vars

C17_Witness ==
  /\ ret.op = "add" /\ ret.error = "E11000 duplicate key"
  /\ ret.tenant.id = "t1"
  /\ Len(tenants) = 1 /\ tenants[1].id = "t1"

---------------------------------------------------------------------------
(* Overlapping requests on one process                                     *)

\* the operations a request handler calls on the model
RequestOps ==
  {"find", "findOne", "findById", "countDocuments", "distinct", "aggregate",
   "save"}

\* the operations that return documents or values read from them
RetrievalOps == {"find", "findOne", "findById", "distinct", "aggregate"}

\* the name of the middleware an operation runs, in its parts: findById is
\* findOne({ _id }), distinct is query middleware of its own name,
\* aggregate is aggregate middleware
MiddlewareName(op) ==
  CASE op = "find" -> <<"find">>
    [] op = "findOne" -> <<"find", "One">>
    [] op = "findById" -> <<"find", "One">>
    [] op = "countDocuments" -> <<"count", "Documents">>
    [] op = "distinct" -> <<"distinct">>
    [] op = "aggregate" -> <<"aggregate">>
    [] op = "save" -> <<"save">>
    [] op = "validate" -> <<"validate">>
    [] op = "findOneAndDelete" -> <<"find", "One", "And", "Delete">>
    [] op = "deleteOne" -> <<"delete", "One">>
    [] op = "deleteMany" -> <<"delete", "Many">>

\* /^find/ and /^count/ against a middleware name
FindPattern(name) == Head(name) = "find"
CountPattern(name) == Head(name) = "count"

\* the collection as seedData leaves it
SeedData ==
  <<[id |-> 1, tenantId |-> "tenant1", savedBy |-> "tenant1"],
    [id |-> 2, tenantId |-> "tenant2", savedBy |-> "tenant2"]>>

\* a context read that returns the store of the latest run on the process
GetStoreShared(r) == lastRun

\* tenantContext.getStore() in a hook of request r: the store of the
\* asynchronous context the operation was issued in
GetStore(r) == requests[r].tenant

\* tenantContext.run(t, handler): the request enters its tenant context
Run(r, t) ==
  /\ requests[r].pc = "idle"
  /\ requests' = [requests EXCEPT ![r] =
                    [NoRequest EXCEPT !.pc = "running", !.tenant = t]]
  /\ lastRun' = t
  /\ UNCHANGED <<exemptModels, tenantIdPath, hooks, db>>

\* the saves that were called and have not reached the collection
Saving == {r \in Requests : requests[r].op = "save"}

\* the handler calls the operation with a filter that leaves tenantId open
\* (findById: { _id: 1 }), or saves a new document without a tenantId; the
\* operation starts at a later turn of the event loop
Call(r, m, op) ==
  /\ requests[r].pc = "running"
  /\ op = "save" => Len(db[m]) + Cardinality(Saving) < Len(SeedData) + MaxDocs
  /\ requests' = [requests EXCEPT ![r] =
       [@ EXCEPT !.pc = "called", !.op = op, !.doc.model = m,
                 !.q.cond.id = IF op = "findById" THEN 1 ELSE NoId]]
  /\ UNCHANGED <<lastRun, exemptModels, tenantIdPath, hooks, db>>

\* the pre hooks of the operation: the hooks registered for a pattern the
\* middleware name matches; for save, those of validate, the validation,
\* then those of save
PreHooks(r) ==
  /\ requests[r].pc = "called"
  /\ LET rq == requests[r]
         m == rq.doc.model
         name == MiddlewareName(rq.op)
         q1 == IF FindPattern(name)
               THEN RunFindHooks(rq.q, hooks[m], m, GetStore(r))
               ELSE IF CountPattern(name)
               THEN RunCountHooks(rq.q, hooks[m], m, GetStore(r))
               ELSE rq.q
         d1 == RunValidateHooks(rq.doc, hooks[m], m, GetStore(r))
         d2 == RunSaveHooks(d1, hooks[m], m, GetStore(r))
     IN requests' = [requests EXCEPT ![r] =
          IF rq.op # "save" THEN [@ EXCEPT !.pc = "hooked", !.q = q1]
          ELSE IF ~ValidTenantId(d1)
          THEN [@ EXCEPT !.pc = "done", !.doc = d1,
                         !.error = "ValidationError"]
          ELSE [@ EXCEPT !.pc = "hooked", !.doc = d2]]
  /\ UNCHANGED <<lastRun, exemptModels, tenantIdPath, hooks, db>>

\* the driver executes the operation: the _ids of the documents a read
\* returns or takes its values from, the number a count returns, the
\* insert of a save
Driver(r) ==
  /\ requests[r].pc = "hooked"
  /\ LET rq == requests[r]
         m == rq.doc.model
         ids == {i \in DOMAIN db[m] : Matches(db[m][i], rq.q.cond)}
         first == {i \in ids : \A j \in ids : i <= j}
     IN IF rq.op = "save"
        THEN /\ db' = [db EXCEPT ![m] =
                        Append(@, [id |-> Len(@) + 1,
                                   tenantId |-> rq.doc.tenantId,
                                   savedBy |-> rq.tenant])]
             /\ requests' = [requests EXCEPT ![r].pc = "done"]
        ELSE /\ db' = db
             /\ requests' = [requests EXCEPT ![r] =
                  [@ EXCEPT !.pc = "done",
                            !.result = IF rq.op = "countDocuments" THEN {}
                                       ELSE IF rq.op \in {"findOne", "findById"}
                                       THEN first ELSE ids,
                            !.count = Cardinality(ids)]]
  /\ UNCHANGED <<lastRun, exemptModels, tenantIdPath, hooks>>

\* the handler returns and the request leaves its context
Respond(r) ==
  /\ requests[r].pc = "done"
  /\ requests' = [requests EXCEPT ![r] = NoRequest]
  /\ UNCHANGED <<lastRun, exemptModels, tenantIdPath, hooks, db>>

\* the application after start-up: the plugin on the schema, the model not
\* exempt, the collection seeded
RequestInit ==
  /\ exemptModels = {}
  /\ tenantIdPath = [m \in Models |-> "injected"]
  /\ hooks \in [Models -> {<<[hideTenantId |-> h]>> : h \in BOOLEAN}]
  /\ db = [m \in Models |-> SeedData]
  /\ doc = NoDoc
  /\ query = NoQuery
  /\ history = NoHistory
  /\ NoRegistry
  /\ NoRequests

RequestNext ==
  /\ \/ \E r \in Requests, t \in Tenants : Run(r, t)
     \/ \E r \in Requests, m \in Models, op \in RequestOps : Call(r, m, op)
     \/ \E r \in Requests : PreHooks(r)
     \/ \E r \in Requests : Driver(r)
     \/ \E r \in Requests : Respond(r)
  /\ UNCHANGED <<doc, query, history>>
  /\ UNCHANGED registryVars

RequestSpec == RequestInit /\ [][RequestNext]_vars

\* the operation of request r has passed its pre hooks
Past(r) == requests[r].pc \in {"hooked", "done"} /\ requests[r].error = "none"

\* C19: with overlapping requests under different ambient tenants, their
\* steps interleaved in any order, every hook observes the tenant of the
\* request that issued the operation: a read or a count behind the hooks is
\* filtered by its own request's tenant, a saved document is stamped with
\* its own request's tenant.
C19_OwnFilter ==
  \A r \in Requests :
    (Past(r) /\ requests[r].op \in {"find", "findOne", "findById", "countDocuments"})
    => requests[r].q.cond.tenantId = requests[r].tenant

C19_OwnStamp ==
  /\ \A r \in Requests :
       (Past(r) /\ requests[r].op = "save")
       => requests[r].doc.tenantId = requests[r].tenant
  /\ \A m \in Models :
       \A i \in DOMAIN db[m] : db[m][i].tenantId = db[m][i].savedBy

C19_OwnTenant == C19_OwnFilter /\ C19_OwnStamp

C19_Witness ==
  /\ requests["A"].tenant = "tenant1" /\ requests["B"].tenant = "tenant2"
  /\ lastRun = "tenant2"
  /\ requests["A"].op = "find" /\ requests["A"].pc = "done"
  /\ requests["A"].q.cond.tenantId = "tenant1"
  /\ requests["B"].op = "save" /\ requests["B"].pc = "done"
  /\ requests["B"].doc.tenantId = "tenant2"

\* C20: every retrieval operation on a non-exempt model passes through the
\* read hook: with a tenant ambient and a filter that leaves tenantId open,
\* none of them returns a document of another tenant, or a value read from
\* one.
C20_AllReadsHooked ==
  \A r \in Requests :
    (/\ requests[r].pc = "done"
     /\ requests[r].op \in RetrievalOps
     /\ requests[r].doc.model \notin exemptModels)
    => \A i \in requests[r].result :
         db[requests[r].doc.model][i].tenantId = requests[r].tenant

---------------------------------------------------------------------------
(* One flow of control that builds queries and documents and executes them *)
(* later, while the ambient tenant, the exemption set and the number of   *)
(* applications of the plugin change in between                           *)

\* further applications of the plugin to a schema that has it
MaxAgain == 1

\* the object the caller holds: a query or a document
Handles == {"A"}

QueryOps == {"find", "findOne", "countDocuments"}
RemoveOps == {"findOneAndDelete", "deleteOne", "deleteMany"}
DocOps == {"validate", "save"}

\* next() and next(err)
NoError == Absent

\* a save hook whose exempt branch calls next() and falls through
SaveHookNextNoReturn(d, opt, m, ctx) ==
  (IF m \in exemptModels THEN <<NoError>> ELSE <<>>) \o <<NoError>>

\* the calls of the continuation one invocation of a hook makes, in order:
\* `return next()` on the exempt branch, `next()` at the end of the body
FindHookNext(q, opt, m, ctx) ==
  LET early == IF m \in exemptModels THEN <<NoError>> ELSE <<>>
  IN IF early # <<>> THEN early ELSE <<NoError>>

CountHookNext(q, opt, m, ctx) ==
  LET early == IF m \in exemptModels THEN <<NoError>> ELSE <<>>
  IN IF early # <<>> THEN early ELSE <<NoError>>

SaveHookNext(d, opt, m, ctx) ==
  LET early == IF m \in exemptModels THEN <<NoError>> ELSE <<>>
  IN IF early # <<>> THEN early ELSE <<NoError>>

ValidateHookNext(d, opt, m, ctx) ==
  LET early == IF m \in exemptModels THEN <<NoError>> ELSE <<>>
  IN IF early # <<>> THEN early ELSE <<NoError>>

\* the continuation calls of the hooks an operation runs, one entry for
\* every invocation
HookCalls(op, q, d, valid, hs, m, ctx) ==
  LET name == MiddlewareName(op)
      finds == [i \in DOMAIN hs |-> FindHookNext(q, hs[i], m, ctx)]
      counts == [i \in DOMAIN hs |-> CountHookNext(q, hs[i], m, ctx)]
      validates == [i \in DOMAIN hs |-> ValidateHookNext(d, hs[i], m, ctx)]
      saves == [i \in DOMAIN hs |-> SaveHookNext(d, hs[i], m, ctx)]
  IN IF FindPattern(name) THEN finds
     ELSE IF CountPattern(name) THEN counts
     ELSE IF op = "validate" THEN validates
     ELSE IF op = "save" THEN IF valid THEN validates \o saves ELSE validates
     ELSE <<>>

\* a hook that reads the tenant the object was built under
HookContextBuilt(r) == requests[r].tenant

\* tenantContext.getStore() in a hook: the ambient tenant of the flow at
\* the moment the hook runs
HookContext(r) == lastRun

\* the flow enters tenantContext.run(t, ...), or is back outside of any
Enter(t) ==
  /\ lastRun # t
  /\ lastRun' = t
  /\ UNCHANGED <<exemptModels, tenantIdPath, hooks, db, requests>>

\* multitenancyPlugin(schema, options) on a schema that has the plugin,
\* with the options of the first application
Reapply(m) ==
  /\ hooks[m] # <<>>
  /\ Len(hooks[m]) < 1 + MaxAgain
  /\ exemptModels' = exemptModels \cup {}
  /\ tenantIdPath' = [tenantIdPath EXCEPT ![m] =
                        IF @ = "absent" THEN "injected" ELSE @]
  /\ hooks' = [hooks EXCEPT ![m] = Append(@, Head(@))]
  /\ UNCHANGED <<db, requests, lastRun>>

\* Model.find(), new Model() and the like: the object is built, with a
\* filter that leaves tenantId open or without a tenantId, and nothing runs;
\* a write is tried on the collection as it was seeded
Build(r, m, op) ==
  /\ requests[r].pc = "idle"
  /\ op \in RemoveOps \cup {"save"} => db[m] = SeedData
  /\ requests' = [requests EXCEPT ![r] =
       [NoRequest EXCEPT !.pc = "built", !.tenant = lastRun, !.op = op,
                         !.doc.model = m]]
  /\ UNCHANGED <<lastRun, exemptModels, tenantIdPath, hooks, db>>

\* the collection without the documents at the positions ids
Without(coll, ids) ==
  LET F[i \in 0..Len(coll)] ==
        IF i = 0 THEN <<>>
        ELSE IF i \in ids THEN F[i - 1] ELSE Append(F[i - 1], coll[i])
  IN F[Len(coll)]

\* query.exec(), doc.validate(), doc.save(): the pre hooks the middleware
\* name matches, then the driver
Execute(r) ==
  /\ requests[r].pc = "built"
  /\ LET rq == requests[r]
         m == rq.doc.model
         ctx == HookContext(r)
         name == MiddlewareName(rq.op)
         q1 == IF FindPattern(name)
               THEN RunFindHooks(rq.q, hooks[m], m, ctx)
               ELSE IF CountPattern(name)
               THEN RunCountHooks(rq.q, hooks[m], m, ctx)
               ELSE rq.q
         d1 == RunValidateHooks(rq.doc, hooks[m], m, ctx)
         valid == ValidTenantId(d1)
         d2 == RunSaveHooks(d1, hooks[m], m, ctx)
         ids == {i \in DOMAIN db[m] : Matches(db[m][i], q1.cond)}
         first == {i \in ids : \A j \in ids : i <= j}
         calls == HookCalls(rq.op, rq.q, rq.doc, valid, hooks[m], m, ctx)
     IN CASE rq.op \in DocOps ->
               /\ requests' = [requests EXCEPT ![r] =
                    [@ EXCEPT !.pc = "done", !.calls = calls,
                              !.doc = IF valid /\ rq.op = "save" THEN d2 ELSE d1,
                              !.error = IF valid THEN "none"
                                        ELSE "ValidationError"]]
               /\ db' = IF valid /\ rq.op = "save"
                        THEN [db EXCEPT ![m] =
                                Append(@, [id |-> Len(@) + 1,
                                           tenantId |-> d2.tenantId,
                                           savedBy |-> ctx])]
                        ELSE db
          [] rq.op \in RemoveOps ->
               LET gone == IF rq.op = "deleteMany" THEN ids ELSE first
               IN /\ requests' = [requests EXCEPT ![r] =
                       [@ EXCEPT !.pc = "done", !.calls = calls, !.q = q1,
                                 !.result = IF rq.op = "findOneAndDelete"
                                            THEN first ELSE {},
                                 !.count = Cardinality(gone)]]
                  /\ db' = [db EXCEPT ![m] = Without(@, gone)]
          [] OTHER ->
               /\ requests' = [requests EXCEPT ![r] =
                    [@ EXCEPT !.pc = "done", !.calls = calls, !.q = q1,
                              !.result = IF rq.op = "countDocuments" THEN {}
                                         ELSE IF rq.op = "findOne" THEN first
                                         ELSE ids,
                              !.count = Cardinality(ids)]]
               /\ db' = db
  /\ UNCHANGED <<lastRun, exemptModels, tenantIdPath, hooks>>

\* clearDatabase() and the creation of the test data again
Reseed(m) ==
  /\ db[m] # SeedData
  /\ \A r \in Handles : requests[r].pc # "built"
  /\ db' = [db EXCEPT ![m] = SeedData]
  /\ UNCHANGED <<lastRun, exemptModels, tenantIdPath, hooks, requests>>

\* the caller lets the object go
Drop(r) ==
  /\ requests[r].pc = "done"
  /\ requests' = [requests EXCEPT ![r] = NoRequest]
  /\ UNCHANGED <<lastRun, exemptModels, tenantIdPath, hooks, db>>

\* the application after start-up, outside of any request: the plugin on
\* the schema, the model not exempt, the collection seeded
DeferredInit ==
  /\ exemptModels = {}
  /\ tenantIdPath = [m \in Models |-> "injected"]
  /\ hooks \in [Models -> {<<[hideTenantId |-> h]>> : h \in BOOLEAN}]
  /\ db = [m \in Models |-> SeedData]
  /\ doc = NoDoc
  /\ query = NoQuery
  /\ history = NoHistory
  /\ NoRegistry
  /\ NoRequests

DeferredNext ==
  /\ \/ \E t \in Ambient : Enter(t)
     \/ \E m \in Models : Reapply(m)
     \/ \E n \in ModelNames :
          /\ n \notin exemptModels
          /\ AddExempt(n)
          /\ UNCHANGED requestVars
     \/ \E r \in Handles, m \in Models,
           op \in QueryOps \cup RemoveOps \cup DocOps : Build(r, m, op)
     \/ \E r \in Handles : Execute(r)
     \/ \E r \in Handles : Drop(r)
     \/ \E m \in Models : Reseed(m)
  /\ UNCHANGED <<doc, query, history>>
  /\ UNCHANGED registryVars

DeferredSpec == DeferredInit /\ [][DeferredNext]_vars

\* the middleware of the operation is behind pre(/^find/) or pre(/^count/)
BehindReadHooks(op) ==
  FindPattern(MiddlewareName(op)) \/ CountPattern(MiddlewareName(op))

\* C21: exemption is evaluated at each operation.  With the hooks attached
\* while the model was not exempt and the name added to the set at any
\* later moment, a read, count, validate or save is skipped by the hooks
\* (filter, projection and tenantId untouched) when the model's name is in
\* the set as the hooks run, and is filtered or stamped with the ambient
\* tenant when it is not.
C21_Step ==
  \A r \in Handles :
    Execute(r)
    => LET rq == requests[r]
           nx == requests'[r]
           m == rq.doc.model
       IN IF m \in exemptModels
          THEN /\ nx.q = rq.q
               /\ nx.doc.tenantId = rq.doc.tenantId
               /\ nx.error = "none"
          ELSE /\ (Truthy(lastRun) /\ BehindReadHooks(rq.op))
                  => nx.q.cond.tenantId = lastRun
               /\ (Truthy(lastRun) /\ rq.op \in DocOps)
                  => nx.doc.tenantId = lastRun
               /\ (FindPattern(MiddlewareName(rq.op)) /\ hooks[m][1].hideTenantId)
                  => nx.q.hidden

C21_ExemptAtOperation == [][C21_Step]_vars

C21_Witness ==
  /\ requests["A"].pc = "done" /\ requests["A"].op = "save"
  /\ requests["A"].doc.model \in exemptModels
  /\ requests["A"].tenant = "tenant1" /\ lastRun = "tenant1"
  /\ requests["A"].doc.tenantId = Absent
  /\ requests["A"].error = "none"
  /\ Len(db["Product"]) = Len(SeedData) + 1
  /\ db["Product"][Len(SeedData) + 1].tenantId = Absent

\* C23: the ambient tenant is read when the operation executes.  A query
\* built under one ambient tenant and executed under another (or none) is
\* filtered by the tenant ambient at execution (or not at all); a document
\* built under one and validated or saved under another, with no tenantId
\* set, is stamped with the tenant ambient at the save, and so stored.
C23_Step ==
  \A r \in Handles :
    (Execute(r) /\ requests[r].doc.model \notin exemptModels)
    => LET rq == requests[r]
           nx == requests'[r]
           m == rq.doc.model
       IN /\ BehindReadHooks(rq.op)
             => nx.q.cond.tenantId = (IF Truthy(lastRun) THEN lastRun ELSE Absent)
          /\ (rq.op \in DocOps /\ nx.error = "none")
             => nx.doc.tenantId = lastRun
          /\ (rq.op = "save" /\ nx.error = "none")
             => /\ Len(db'[m]) = Len(db[m]) + 1
                /\ db'[m][Len(db'[m])].tenantId = lastRun

C23_AmbientAtExecution == [][C23_Step]_vars

C23_Witness ==
  /\ requests["A"].pc = "done" /\ requests["A"].op = "find"
  /\ requests["A"].doc.model \notin exemptModels
  /\ requests["A"].tenant = "tenant1"
  /\ requests["A"].q.cond.tenantId = "tenant2"
  /\ requests["A"].result = {2}

\* C25: no cross-tenant modification.  While a tenant is ambient, an
\* operation on a non-exempt model with a filter that leaves tenantId open
\* removes no document of another tenant.
C25_Kept ==
  \A r \in Handles :
    (/\ requests[r].pc = "built"
     /\ requests[r].op \in RemoveOps
     /\ requests[r].doc.model \notin exemptModels
     /\ Truthy(lastRun)
     /\ Execute(r))
    => LET m == requests[r].doc.model
       IN \A i \in DOMAIN db[m] :
            db[m][i].tenantId # lastRun
            => \E j \in DOMAIN db'[m] : db'[m][j] = db[m][i]

C25_NoCrossTenantChange == [][C25_Kept]_vars

\* C27: applying the plugin again with the same options changes nothing.
\* Whatever the number of applications, every operation has the executed
\* filter, the projection and the stamped tenantId it has after one
\* application, and a further application leaves the tenantId path and
\* the exemption set as they are.
C27_AsOnce ==
  \A r \in Handles :
    Execute(r)
    => LET rq == requests[r]
           nx == requests'[r]
           m == rq.doc.model
           once == <<Head(hooks[m])>>
           v1 == RunValidateHooks(rq.doc, once, m, lastRun)
       IN /\ FindPattern(MiddlewareName(rq.op))
             => nx.q = RunFindHooks(rq.q, once, m, lastRun)
          /\ CountPattern(MiddlewareName(rq.op))
             => nx.q = RunCountHooks(rq.q, once, m, lastRun)
          /\ rq.op \in DocOps
             => /\ nx.error = (IF ValidTenantId(v1) THEN "none"
                               ELSE "ValidationError")
                /\ nx.doc.tenantId =
                     (IF rq.op = "save" /\ ValidTenantId(v1)
                      THEN RunSaveHooks(v1, once, m, lastRun).tenantId
                      ELSE v1.tenantId)

C27_PathOnce ==
  \A m \in Models :
    Reapply(m) => tenantIdPath' = tenantIdPath /\ exemptModels' = exemptModels

C27_Idempotent == [][C27_AsOnce /\ C27_PathOnce]_vars

C27_Witness ==
  /\ Len(hooks["Product"]) = 2
  /\ hooks["Product"][1].hideTenantId
  /\ "Product" \notin exemptModels
  /\ requests["A"].pc = "done" /\ requests["A"].op = "find"
  /\ requests["A"].q.cond.tenantId = "tenant1"
  /\ requests["A"].q.hidden
  /\ requests["A"].result = {1}

\* C28: every invocation of the read, count, validate and save hooks calls
\* its continuation exactly once and without an error argument, on the
\* exempt path and on the others, and an operation invokes the hooks of
\* every application once.
C28_Once ==
  \A r \in Handles :
    \A i \in DOMAIN requests[r].calls : requests[r].calls[i] = <<NoError>>

C28_EveryHook ==
  \A r \in Handles :
    Execute(r)
    => LET rq == requests'[r]
           n == Len(hooks[rq.doc.model])
       IN Len(rq.calls) =
            (IF BehindReadHooks(rq.op) \/ rq.op = "validate" THEN n
             ELSE IF rq.op = "save"
             THEN IF rq.error = "none" THEN n + n ELSE n
             ELSE 0)

C28_NextOnce == []C28_Once /\ [][C28_EveryHook]_vars

C28_Witness ==
  /\ requests["A"].pc = "done" /\ requests["A"].op = "save"
  /\ requests["A"].doc.model \in exemptModels
  /\ Len(hooks["Product"]) = 2
  /\ requests["A"].calls = <<<<NoError>>, <<NoError>>, <<NoError>>, <<NoError>>>>

---------------------------------------------------------------------------
(* C22, C24: the tenantId path under changes of the exemption set *)

\* a step that validates a document without tenantId of a schema whose
\* tenantId path the plugin added
ValidatesInjected(c) ==
  /\ doc.op # "none"
  /\ doc.tenantId = Absent
  /\ tenantIdPath[doc.model] = "injected"
  /\ Validate(c)

\* C22: whether tenantId is required is decided by the membership at
\* hook-registration time, whether an operation is skipped by the
\* membership at operation time (so that the two disagree once the set is
\* mutated after registration): a validation that leaves the document
\* without tenantId fails exactly when the model was not in the set when
\* the plugin was applied.
C22_AtRegistration ==
  \A c \in Ambient :
    (ValidatesInjected(c) /\ doc'.tenantId = Absent)
    => (doc'.result = "ValidationError"
        <=> history.atApply[doc.model] = "required")

C22_ReadSkipped ==
  (query.op # "none" /\ hooks[query.model] # <<>> /\ query.ctx \in Tenants)
  => (query.executed = query.filter <=> query.model \in exemptModels)

C22_RequiredWithSkip ==
  \A c \in Ambient :
    ValidatesInjected(c)
    => /\ (doc'.tenantId = Absent /\ doc'.result = "ok")
          <=> doc.model \in exemptModels
       /\ Truthy(c) => doc'.result = "ok"

C24_Injection ==
  /\ hooks' # hooks
     => \A s \in Schemas, opt \in SchemaOptions :
          ApplyPlugin(s, opt)
          => /\ tenantIdPath'[s] =
                  (IF tenantIdPath[s] = "absent" THEN "injected"
                   ELSE tenantIdPath[s])
             /\ \A o \in Schemas \ {s} : tenantIdPath'[o] = tenantIdPath[o]
  /\ tenantIdPath' # tenantIdPath => hooks' # hooks

C24_DeclaredValidates ==
  (doc.op = "validate" /\ tenantIdPath[doc.model] = "declared")
  => doc.result = "ok"

---------------------------------------------------------------------------
(* C26, C29, C30 *)

\* C26: every document a save persists for a model that has the hooks and
\* is not exempt at the save has a non-empty tenantId, under any ambient
\* tenant or none.
C26_Stamped ==
  /\ doc'.result = "ok"
     => db'[doc.model][doc'.id].tenantId \notin {Absent, Null, ""}
  /\ doc'.result # "ok" => db' = db

C26_Saved ==
  \A c \in Ambient :
    ( /\ doc.op # "none"
      /\ doc.model \notin exemptModels
      /\ Hooked(doc.model)
      /\ Save(c) )
    => C26_Stamped

C26_PersistedHasTenant == [][C26_Saved]_vars

\* C26, amended: the same, for a model whose tenantId path was added by
\* the plugin.
C26_SavedInjected ==
  \A c \in Ambient :
    ( /\ doc.op # "none"
      /\ doc.model \notin exemptModels
      /\ Hooked(doc.model)
      /\ tenantIdPath[doc.model] = "injected"
      /\ Save(c) )
    => C26_Stamped

C26_PersistedHasTenantInjected == [][C26_SavedInjected]_vars

C26_Witness ==
  /\ doc.op = "save" /\ doc.result = "ok" /\ doc.ctx = "tenant1"
  /\ doc.model \notin exemptModels /\ Hooked(doc.model)
  /\ tenantIdPath[doc.model] = "injected"
  /\ Len(db[doc.model]) = 2 /\ doc.id = 2
  /\ db[doc.model][1].tenantId = "tenant2"
  /\ db[doc.model][2].tenantId = "tenant1"
  /\ db[doc.model][2].savedBy = "tenant1"

\* C29: a failed construction leaves shared state unchanged: the exemption
\* set has the members it had and the connection the models it had.
C29_Failed ==
  \A o \in StoreOptions :
    (store.status # "ok" /\ NewStore(o) /\ store'.status # "ok")
    => /\ exemptModels' = exemptModels
       /\ registered' = registered
       /\ tenants' = tenants

C29_FailureLeavesState == [][C29_Failed]_vars

C29_Witness ==
  /\ store.status = FieldsRequired
  /\ store.options.connection /\ store.options.model = "Org"
  /\ registered["Org"] = invalidSchema
  /\ registered["Tenant"] = NoModel
  /\ exemptModels = {}

\* the compiled plugin (lib/mongoose-plugin.js): its read hook excludes
\* tenantId unless options.returnTenantId is set, which the documented
\* options {exemptModels, hideTenantId, debug} never do
ReturnTenantId(opt) == FALSE

FindHookJs(q, opt, m, ctx) ==
  IF m \in exemptModels THEN q
  ELSE LET q1 == IF Truthy(ctx) /\ ~Truthy(q.cond.tenantId)
                 THEN Where(q, ctx) ELSE q
       IN IF ~ReturnTenantId(opt) THEN Select(q1) ELSE q1

CountHookJs(q, opt, m, ctx) ==
  IF m \in exemptModels THEN q
  ELSE IF Truthy(ctx) /\ ~Truthy(q.cond.tenantId) THEN Where(q, ctx) ELSE q

RECURSIVE RunFindHooksJs(_, _, _, _)
RunFindHooksJs(q, hs, m, ctx) ==
  IF hs = <<>> THEN q
  ELSE RunFindHooksJs(FindHookJs(q, Head(hs), m, ctx), Tail(hs), m, ctx)

RECURSIVE RunCountHooksJs(_, _, _, _)
RunCountHooksJs(q, hs, m, ctx) ==
  IF hs = <<>> THEN q
  ELSE RunCountHooksJs(CountHookJs(q, Head(hs), m, ctx), Tail(hs), m, ctx)

\* C30: the compiled plugin behaves like the TypeScript source: for every
\* option set, exemption set, ambient tenant and read or count, the
\* executed filter and the projection of the source's hooks are those the
\* compiled hooks give.
C30_CompiledAgrees ==
  (query.op # "none" /\ Hooked(query.model))
  => LET q0 == [cond |-> query.filter, hidden |-> FALSE]
         m == query.model
         js == IF query.op \in FindOps
               THEN RunFindHooksJs(q0, hooks[m], m, query.ctx)
               ELSE RunCountHooksJs(q0, hooks[m], m, query.ctx)
     IN /\ query.executed = js.cond
        /\ query.hidden = js.hidden

============================================================================
